---- MODULE Spec2Model ----
(***************************************************************************)
(* A model of fit_spectra.py: the airglow line selection, the cleaning of  *)
(* a spectrum, the linear model and its separation, and the batch run      *)
(* (main, the worker pool, one fit_and_separate_spectra task per plate).   *)
(*                                                                         *)
(* A wavelength of the airglow catalog is an integer in units of 0.1 nm, a  *)
(* converted (vacuum) wavelength an integer in units of 0.0001 nm.  The    *)
(* floats of linear_model are exact rationals [n, d].  A float that may be *)
(* non-finite (a flux, a sigma, R) is a record                             *)
(* [k |-> "fin" | "nan" | "inf", v |-> value or sign].                     *)
(***************************************************************************)
EXTENDS Integers, Sequences, FiniteSets, TLC

VARIABLES
    AirglowLines,   \* global AirglowLines: the catalog, records [obs_wave, obs_eint]
    MetaData,       \* global MetaData: rows [PLATE, SPECNO, CAMERAS]
    spectraDir,     \* SPECTRA_DIR: file name -> the spectra np.load returns
    saveDir,        \* SAVE_DIR: file name -> the collection np.save stored
    mainpc,         \* main: "start", "mapping" (inside pool.map), "exit", "raised"
    SPECTRA,        \* main's list of the plate files it dispatches
    runsLeft,       \* how many more times the program is started
    task,           \* one record of locals per item of SPECTRA (a pool task)
    spectrum,       \* argument of clean_spectra / linear_model
    num_cont,       \* argument of linear_model
    airglow_lines,  \* argument of linear_model
    result          \* what the function under evaluation returned

batchVars == <<MetaData, spectraDir, saveDir, mainpc, SPECTRA, runsLeft, task>>
callVars == <<spectrum, num_cont, airglow_lines>>
vars == <<AirglowLines, MetaData, spectraDir, saveDir, mainpc, SPECTRA, runsLeft,
          task, spectrum, num_cont, airglow_lines, result>>

(***************************************************************************)
(* Bounds of the model.                                                    *)
(***************************************************************************)
MaxCat == 2        \* entries of an enumerated airglow catalog
MaxSamples == 3    \* samples of a spectrum given to clean_spectra
MaxPts == 2        \* samples of a spectrum given to linear_model
MaxLines == 2      \* airglow lines given to linear_model
MaxPlates == 2     \* plates with a file in SPECTRA_DIR
MaxRuns == 2       \* starts of the program over the same directories

(***************************************************************************)
(* numpy and Python helpers.                                               *)
(***************************************************************************)
Range(s) == {s[i] : i \in DOMAIN s}

SeqsUpTo(S, n) == UNION {[1..k -> S] : k \in 0..n}

Min(a, b) == IF a < b THEN a ELSE b

Max(a, b) == IF a > b THEN a ELSE b

\* s[a:b] of Python, a and b possibly negative, clamped to the sequence.
PySlice(s, a, b) ==
    LET n == Len(s)
        lo == IF a < 0 THEN Max(n + a, 0) ELSE Min(a, n)
        hi == IF b < 0 THEN Max(n + b, 0) ELSE Min(b, n)
    IN  SubSeq(s, lo + 1, hi)

\* s[a:] of Python.
PySliceFrom(s, a) == PySlice(s, a, Len(s))

\* arr[ok] of numpy, ok a boolean mask of arr's length.
RECURSIVE Mask(_, _)
Mask(arr, ok) ==
    IF arr = <<>> THEN <<>>
    ELSE (IF Head(ok) THEN <<Head(arr)>> ELSE <<>>) \o Mask(Tail(arr), Tail(ok))

\* np.where(cond)[0]: the positions where the mask holds, in order.
Where(ok) == Mask([i \in DOMAIN ok |-> i], ok)

\* arr[idx] of numpy, idx a sequence of positions.
Take(arr, idx) == [k \in DOMAIN idx |-> arr[idx[k]]]

\* arr['field'] of a structured array.
Column(arr, field) == [i \in DOMAIN arr |-> arr[i][field]]

Abs(x) == IF x < 0 THEN -x ELSE x

Fin(v) == [k |-> "fin", v |-> v]
NaN == [k |-> "nan", v |-> 0]
PosInf == [k |-> "inf", v |-> 1]
NegInf == [k |-> "inf", v |-> -1]

\* np.isfinite
isfinite(x) == x.k = "fin"

(***************************************************************************)
(* Float arithmetic of linear_model, exact: a rational is [n, d] in lowest *)
(* terms with d > 0.                                                       *)
(***************************************************************************)
RECURSIVE GCD(_, _)
GCD(a, b) == IF b = 0 THEN a ELSE GCD(b, a % b)

Rat(n, d) ==
    LET s == IF d < 0 THEN -1 ELSE 1
        g == GCD(Abs(n), Abs(d))
    IN  [n |-> (s * n) \div g, d |-> (s * d) \div g]

RInt(i) == [n |-> i, d |-> 1]

RAdd(a, b) == Rat(a.n * b.d + b.n * a.d, a.d * b.d)

RSub(a, b) == Rat(a.n * b.d - b.n * a.d, a.d * b.d)

RMul(a, b) == Rat(a.n * b.n, a.d * b.d)

RDiv(a, b) == Rat(a.n * b.d, a.d * b.n)

\* np.sum of a vector.
RECURSIVE RSum(_)
RSum(s) == IF s = <<>> THEN RInt(0) ELSE RAdd(Head(s), RSum(Tail(s)))

\* np.dot of two vectors of one length.
Dot(a, b) == RSum([i \in DOMAIN a |-> RMul(a[i], b[i])])

\* F(v), with v computed once.
With(v, F(_)) == CHOOSE y \in {F(x) : x \in {v}} : TRUE

\* np.array of a list of numbers, and of a list of rows: the entries computed.
Vector(v) == v \o <<>>

Matrix(M) == [i \in DOMAIN M |-> Vector(M[i])] \o <<>>

(***************************************************************************)
(* air_to_vac: (n - 1) * 10^8 of Edlen's formula for a wavelength W in     *)
(* 0.1 nm, in fixed point (1/wave_um^2 is held times 1000), and the vacuum *)
(* wavelength n * wave in 0.0001 nm.                                       *)
(***************************************************************************)
VacScale == 10 ^ 4

Refractivity(W) ==
    LET ohm2 == (((10^9) \div W) * 100) \div W
    IN  8342 + (2406030 * 100) \div ((130000 - ohm2) \div 10)
             + (15997 * 1000) \div (389000 - ohm2)

air_to_vac(wave) ==
    [i \in DOMAIN wave |->
        wave[i] * (VacScale \div 10) + (wave[i] * Refractivity(wave[i])) \div (10^5)]

(***************************************************************************)
(* get_vac_lines: the two line lists of the catalog.                       *)
(***************************************************************************)
BlueMinInt == 10
BlueMaxWave == 700
RedMinInt == 3
RedMinWave == 560

blueVacLines(catalog) ==
    LET eint == Column(catalog, "obs_eint")
        b_sig == Where([i \in DOMAIN eint |-> eint[i] > BlueMinInt])
        bVL == Take(air_to_vac(Column(catalog, "obs_wave")), b_sig)
    IN  Mask(bVL, [i \in DOMAIN bVL |-> bVL[i] < BlueMaxWave * VacScale])

\* The red list with the catalog's air wavelengths left unconverted.
redVacLines_unconverted(catalog) ==
    LET eint == Column(catalog, "obs_eint")
        r_sig == Where([i \in DOMAIN eint |-> eint[i] > RedMinInt])
        rVL == Take([i \in DOMAIN catalog |-> catalog[i].obs_wave * (VacScale \div 10)],
                    r_sig)
    IN  Mask(rVL, [i \in DOMAIN rVL |-> rVL[i] > RedMinWave * VacScale])

redVacLines(catalog) ==
    LET eint == Column(catalog, "obs_eint")
        r_sig == Where([i \in DOMAIN eint |-> eint[i] > RedMinInt])
        rVL == Take(air_to_vac(Column(catalog, "obs_wave")), r_sig)
    IN  Mask(rVL, [i \in DOMAIN rVL |-> rVL[i] > RedMinWave * VacScale])

get_vac_lines(catalog) == <<blueVacLines(catalog), redVacLines(catalog)>>

(***************************************************************************)
(* clean_spectra: the four columns of a spectrum at its finite fluxes.     *)
(***************************************************************************)
\* The mask taken from the flux and from the sigma.
FiniteMask_flux_and_sigma(spec) ==
    [i \in DOMAIN spec |-> isfinite(spec[i].SKY) /\ isfinite(spec[i].SIGMA)]

FiniteMask(spec) == [i \in DOMAIN spec |-> isfinite(spec[i].SKY)]

clean_spectra(spec) ==
    LET ok == FiniteMask(spec)
        wave == Mask(Column(spec, "WAVE"), ok)
        sky == Mask(Column(spec, "SKY"), ok)
        sigma == Mask(Column(spec, "SIGMA"), ok)
        disp == Mask(Column(spec, "DISP"), ok)
    IN  <<wave, sky, sigma, disp>>

(***************************************************************************)
(* airglow_line_components: one Gaussian profile per line (row) over the   *)
(* samples.  exp(-z^2/2) is exactly 1 at z = 0 and exactly 0.0 in double   *)
(* precision from |z| = 39 on (z = (w - line) / sig); the model's spectra   *)
(* keep every line either on a sample or that far from it, so the values   *)
(* are exact.                                                              *)
(***************************************************************************)
GaussUnderflow == 39

Gauss(w, line, sig) ==
    LET z == RDiv(RSub(w, line), sig)
    IN  CASE z.n = 0 -> RInt(1)
          [] z.n # 0 /\ Abs(z.n) >= GaussUnderflow * z.d -> RInt(0)

airglow_line_components(lines, wave_range, disp_range) ==
    [l \in DOMAIN lines |->
        [i \in DOMAIN wave_range |-> Gauss(wave_range[i], lines[l], disp_range[i])]]

\* eval_legendre(n, x) for n = 0..3.
eval_legendre(n, x) ==
    CASE n = 0 -> RInt(1)
      [] n = 1 -> x
      [] n = 2 -> RDiv(RSub(RMul(RInt(3), RMul(x, x)), RInt(1)), RInt(2))
      [] n = 3 -> RDiv(RSub(RMul(RInt(5), RMul(x, RMul(x, x))), RMul(RInt(3), x)),
                       RInt(2))

(***************************************************************************)
(* linear_model.  DesignMatrix is lines 158-167: it raises (np.vstack)     *)
(* when there is no line or no continuum term; otherwise A has one row per *)
(* cleaned sample, the continuum columns first.  OLS is the fit of line    *)
(* 169: statsmodels solves it with the pseudo-inverse, params = pinv(A) .  *)
(* sky, the least squares solution of minimum norm.  pinv is computed by   *)
(* Moore's determinantal formula over the minors of A of the size of its   *)
(* rank.                                                                   *)
(***************************************************************************)
DesignRaises(spec, nc, lines) == Len(lines) = 0 \/ nc = 0

DesignMatrix(spec, nc, lines) ==
    LET c == clean_spectra(spec)
        wave_range == c[1]
        disp_range == c[4]
        AA == airglow_line_components(lines, wave_range, disp_range)
        AC == [i \in 1..nc |->
                 [j \in DOMAIN wave_range |-> eval_legendre(i - 1, wave_range[j])]]
        rows == AC \o AA
    IN  Matrix([j \in DOMAIN wave_range |-> [col \in DOMAIN rows |-> rows[col][j]]])

\* The increasing sequences of r indices out of lo..n, as a list.
RECURSIVE Picks(_, _, _)
Picks(lo, n, r) ==
    IF r = 0 THEN <<<<>>>>
    ELSE IF n - lo + 1 < r THEN <<>>
    ELSE LET first == Picks(lo + 1, n, r - 1)
         IN  [k \in DOMAIN first |-> <<lo>> \o first[k]] \o Picks(lo + 1, n, r)

SubMatrix(A, a, b) == Matrix([i \in DOMAIN a |-> [j \in DOMAIN b |-> A[a[i]][b[j]]]])

Without(s, p) == [i \in 1..(Len(s) - 1) |-> IF i < p THEN s[i] ELSE s[i + 1]]

MinorOf(M, p, q) ==
    Matrix([i \in 1..(Len(M) - 1) |-> Without(M[IF i < p THEN i ELSE i + 1], q)])

RECURSIVE Det(_)
Det(M) ==
    IF Len(M) = 0 THEN RInt(1)
    ELSE IF Len(M) = 1 THEN M[1][1]
    ELSE RSum([q \in 1..Len(M) |->
                 RMul(RMul(RInt(IF q % 2 = 1 THEN 1 ELSE -1), M[1][q]),
                      Det(MinorOf(M, 1, q)))])

Cofactor(M, p, q) ==
    RMul(RInt(IF (p + q) % 2 = 0 THEN 1 ELSE -1), Det(MinorOf(M, p, q)))

\* The largest r with a non-zero minor of r rows and r columns.
MatrixRank(A) ==
    LET full == {r \in 1..Min(Len(A), Len(A[1])) :
                    \E a \in Range(Picks(1, Len(A), r)) :
                       \E b \in Range(Picks(1, Len(A[1]), r)) :
                          Det(SubMatrix(A, a, b)).n # 0}
    IN  IF full = {} THEN 0 ELSE CHOOSE r \in full : \A q \in full : q <= r

\* For every choice ra[a] of r rows and cb[b] of r columns of A, the determinant
\* of that minor and its cofactors.
MinorTable(A, ra, cb) ==
    Matrix([a \in DOMAIN ra |-> [b \in DOMAIN cb |->
        With(SubMatrix(A, ra[a], cb[b]), LAMBDA M :
            [det |-> Det(M),
             cof |-> Matrix([p \in DOMAIN M |-> [q \in DOMAIN M |-> Cofactor(M, p, q)]])])]])

\* The sum of the squares of the determinants of the table.
Volume(minor) ==
    RSum(Vector([a \in DOMAIN minor |->
            RSum([b \in DOMAIN minor[a] |-> RMul(minor[a][b].det, minor[a][b].det)])]))

Pos(s, x) == CHOOSE k \in DOMAIN s : s[k] = x

\* np.linalg.pinv(A), one row per column of A: entry (j, i) is the sum, over the
\* minors M of rank size that hold row i and column j of A, of det(M) times the
\* cofactor of A[i][j] in M, divided by the sum of all det(M)^2.
PinvOfRank(A, r, ra, cb) ==
    With(MinorTable(A, ra, cb), LAMBDA minor :
    With(Volume(minor), LAMBDA V :
        Matrix([j \in 1..Len(A[1]) |->
                  [i \in 1..Len(A) |->
                      RDiv(RSum([a \in DOMAIN ra |->
                              RSum([b \in DOMAIN cb |->
                                 IF i \in Range(ra[a]) /\ j \in Range(cb[b])
                                 THEN RMul(minor[a][b].det,
                                           minor[a][b].cof[Pos(ra[a], i)][Pos(cb[b], j)])
                                 ELSE RInt(0)])]),
                           V)]])))

pinv(A) ==
    With(MatrixRank(A), LAMBDA r :
        IF r = 0 THEN Matrix([j \in 1..Len(A[1]) |-> [i \in 1..Len(A) |-> RInt(0)]])
        ELSE With(Picks(1, Len(A), r), LAMBDA ra :
             With(Picks(1, Len(A[1]), r), LAMBDA cb : PinvOfRank(A, r, ra, cb))))

\* sm.OLS(sky_spectra, A).fit().params
OLS(sky_spectra, A) ==
    With(pinv(A), LAMBDA P : Vector([c \in DOMAIN P |-> Dot(P[c], sky_spectra)]))

\* The line part taken from column num_cont + 1 on.
LinesPart_off_by_one(A, params, nc) ==
    [j \in DOMAIN A |-> Dot(PySliceFrom(A[j], nc + 1), PySliceFrom(params, nc + 1))]

ContPart(A, params, nc) ==
    [j \in DOMAIN A |-> Dot(PySlice(A[j], 0, nc), PySlice(params, 0, nc))]

LinesPart(A, params, nc) ==
    [j \in DOMAIN A |-> Dot(PySliceFrom(A[j], nc), PySliceFrom(params, nc))]

Separate(spec, nc, A, params) ==
    LET c == clean_spectra(spec)
        wave_range == c[1]
        sky_spectra == Column(c[2], "v")
        model == Vector([j \in DOMAIN A |-> Dot(A[j], params)])
        cont == ContPart(A, params, nc)
        lines == LinesPart(A, params, nc)
        res == Vector([j \in DOMAIN sky_spectra |-> RSub(sky_spectra[j], model[j])])
    IN  <<wave_range, lines, cont, res>>

\* Lines 174-177: R = 1 - R_1/R_2.  R_2 is 0 when the cleaned fluxes are all equal
\* (a single sample included); numpy then divides by zero without raising, and
\* R is -inf when the float R_1 is positive, nan when it is exactly 0.  The fit
\* is exact in that case, so the float R_1 is 0 or a rounding residue.
RSquared(sky_spectra, resids) ==
    LET R_1 == RSum([i \in DOMAIN resids |-> RMul(resids[i], resids[i])])
        mean == RDiv(RSum(sky_spectra), RInt(Len(sky_spectra)))
        R_2 == RSum([i \in DOMAIN sky_spectra |->
                       RMul(RSub(sky_spectra[i], mean), RSub(sky_spectra[i], mean))])
    IN  IF R_2.n # 0 THEN {Fin(RSub(RInt(1), RDiv(R_1, R_2)))}
        ELSE IF R_1.n # 0 THEN {NegInf}
        ELSE {NaN, NegInf}

(***************************************************************************)
(* The three functions evaluated on their own: Init draws the arguments,   *)
(* the action applies the function.  The batch variables are not used.     *)
(***************************************************************************)
NoBatch ==
    /\ MetaData = <<>>
    /\ spectraDir = <<>>
    /\ saveDir = <<>>
    /\ mainpc = "none"
    /\ SPECTRA = <<>>
    /\ runsLeft = 0
    /\ task = <<>>

NoCall ==
    /\ spectrum = <<>>
    /\ num_cont = 0
    /\ airglow_lines = <<>>

\* Catalog wavelengths (0.1 nm) on both sides of the band edges 560 and 700 nm.
CatalogWaves == {5000, 5599, 6000, 6999, 8000}

CatalogInts == {3, 4, 10, 11}

CatalogEntries == [obs_wave : CatalogWaves, obs_eint : CatalogInts]

InitLines ==
    /\ AirglowLines \in SeqsUpTo(CatalogEntries, MaxCat)
    /\ NoBatch
    /\ NoCall
    /\ result = [fn |-> "none"]

GetVacLines ==
    /\ result.fn = "none"
    /\ LET r == get_vac_lines(AirglowLines)
       IN  result' = [fn |-> "get_vac_lines", blue |-> r[1], red |-> r[2]]
    /\ UNCHANGED <<AirglowLines, batchVars, callVars>>

SpecLines == InitLines /\ [][GetVacLines]_vars

\* The wavelength of sample i: an increasing grid of odd values 100 apart.
WaveGrid(i) == 1 + 100 * (i - 1)

OnGrid(samples) ==
    [i \in DOMAIN samples |->
        [WAVE |-> WaveGrid(i), SKY |-> samples[i].SKY, SIGMA |-> samples[i].SIGMA,
         DISP |-> samples[i].DISP]]

CleanSamples == [SKY : {Fin(7), NaN, PosInf, NegInf}, SIGMA : {Fin(1), NaN}, DISP : {1, 2}]

InitClean ==
    /\ \E s \in SeqsUpTo(CleanSamples, MaxSamples) : spectrum = OnGrid(s)
    /\ num_cont = 0
    /\ airglow_lines = <<>>
    /\ AirglowLines = <<>>
    /\ NoBatch
    /\ result = [fn |-> "none"]

CleanSpectra ==
    /\ result.fn = "none"
    /\ LET c == clean_spectra(spectrum)
       IN  result' = [fn |-> "clean_spectra", wave |-> c[1], sky |-> c[2],
                      sigma |-> c[3], disp |-> c[4]]
    /\ UNCHANGED <<AirglowLines, batchVars, callVars>>

SpecClean == InitClean /\ [][CleanSpectra]_vars

\* Fluxes 4 and 10 or nan, a dispersion of 1/100 of the sample spacing.
FitSamples ==
    [SKY : {Fin(RInt(4)), Fin(RInt(10)), NaN}, SIGMA : {Fin(RInt(1))},
     DISP : {Rat(1, 100)}]

\* The wavelength of sample i of a fitted spectrum: -1, 0, 1, ...
FitGrid(i) == RInt(i - 2)

OnFitGrid(samples) ==
    [i \in DOMAIN samples |->
        [WAVE |-> FitGrid(i), SKY |-> samples[i].SKY, SIGMA |-> samples[i].SIGMA,
         DISP |-> samples[i].DISP]]

\* One line on the second sample of the grid, one between two samples.
LineChoices == {RInt(0), Rat(1, 2)}

\* The largest continuum count the program uses (the blue arm's).
NumContMax == 4

InitLinear ==
    /\ \E s \in SeqsUpTo(FitSamples, MaxPts) :
          /\ \E i \in DOMAIN s : isfinite(s[i].SKY)
          /\ spectrum = OnFitGrid(s)
    /\ num_cont \in 0..NumContMax
    /\ airglow_lines \in SeqsUpTo(LineChoices, MaxLines)
    /\ AirglowLines = <<>>
    /\ NoBatch
    /\ result = [fn |-> "none"]

LinearModelRaises ==
    /\ result.fn = "none"
    /\ DesignRaises(spectrum, num_cont, airglow_lines)
    /\ result' = [fn |-> "linear_model", raised |-> TRUE]
    /\ UNCHANGED <<AirglowLines, batchVars, callVars>>

LinearModelReturns ==
    /\ result.fn = "none"
    /\ ~DesignRaises(spectrum, num_cont, airglow_lines)
    /\ \E A \in {DesignMatrix(spectrum, num_cont, airglow_lines)},
          sky_spectra \in {Vector(Column(clean_spectra(spectrum)[2], "v"))} :
          \E params \in {OLS(sky_spectra, A)} :
             \E r \in {Separate(spectrum, num_cont, A, params)} :
                \E R \in RSquared(sky_spectra, r[4]) :
                   result' = [fn |-> "linear_model", raised |-> FALSE,
                              wave_range |-> r[1], lines |-> r[2], cont |-> r[3],
                              res |-> r[4], R |-> R, A |-> A, params |-> params]
    /\ UNCHANGED <<AirglowLines, batchVars, callVars>>

LinearModel == LinearModelRaises \/ LinearModelReturns

SpecLinear == InitLinear /\ [][LinearModel]_vars

(***************************************************************************)
(* File names are sequences of characters (a character that has no ASCII   *)
(* spelling is named by its code point, "U+0663").  An input file is a     *)
(* 4-character plate identifier followed by 19 more characters, which is   *)
(* what the slice [-23:-19] of main and of fit_and_separate_spectra        *)
(* presumes.                                                               *)
(***************************************************************************)
DigitChars == <<"0", "1", "2", "3", "4", "5", "6", "7", "8", "9">>

InputSuffix ==
    <<"_", "c", "a", "l", "i", "b", "r", "a", "t", "e", "d", "_", "s", "k", "y",
      ".", "n", "p", "y">>

PlateDigits(k) == <<"3", "5", "8", DigitChars[k + 1]>>

InputName(k) == PlateDigits(k) \o InputSuffix

\* d[-23:-19]
PlateSlice(d) == PySlice(d, -23, -19)

\* The characters int() skips at both ends of its argument, by Python's
\* character database (Unicode 14.0.0).
WhitespaceChars ==
    {"\t", "\n", "U+000B", "\f", "\r", " ", "U+0085", "U+00A0", "U+1680", "U+2000",
     "U+2001", "U+2002", "U+2003", "U+2004", "U+2005", "U+2006", "U+2007",
     "U+2008", "U+2009", "U+200A", "U+2028", "U+2029", "U+202F", "U+205F", "U+3000"}

\* The decimal digits outside ASCII (category Nd of the same database): one block
\* per script, the digits 0 to 9 in order.
OtherDigits ==
    <<<<"U+0660", "U+0661", "U+0662", "U+0663", "U+0664", "U+0665", "U+0666", "U+0667", "U+0668", "U+0669">>,
      <<"U+06F0", "U+06F1", "U+06F2", "U+06F3", "U+06F4", "U+06F5", "U+06F6", "U+06F7", "U+06F8", "U+06F9">>,
      <<"U+07C0", "U+07C1", "U+07C2", "U+07C3", "U+07C4", "U+07C5", "U+07C6", "U+07C7", "U+07C8", "U+07C9">>,
      <<"U+0966", "U+0967", "U+0968", "U+0969", "U+096A", "U+096B", "U+096C", "U+096D", "U+096E", "U+096F">>,
      <<"U+09E6", "U+09E7", "U+09E8", "U+09E9", "U+09EA", "U+09EB", "U+09EC", "U+09ED", "U+09EE", "U+09EF">>,
      <<"U+0A66", "U+0A67", "U+0A68", "U+0A69", "U+0A6A", "U+0A6B", "U+0A6C", "U+0A6D", "U+0A6E", "U+0A6F">>,
      <<"U+0AE6", "U+0AE7", "U+0AE8", "U+0AE9", "U+0AEA", "U+0AEB", "U+0AEC", "U+0AED", "U+0AEE", "U+0AEF">>,
      <<"U+0B66", "U+0B67", "U+0B68", "U+0B69", "U+0B6A", "U+0B6B", "U+0B6C", "U+0B6D", "U+0B6E", "U+0B6F">>,
      <<"U+0BE6", "U+0BE7", "U+0BE8", "U+0BE9", "U+0BEA", "U+0BEB", "U+0BEC", "U+0BED", "U+0BEE", "U+0BEF">>,
      <<"U+0C66", "U+0C67", "U+0C68", "U+0C69", "U+0C6A", "U+0C6B", "U+0C6C", "U+0C6D", "U+0C6E", "U+0C6F">>,
      <<"U+0CE6", "U+0CE7", "U+0CE8", "U+0CE9", "U+0CEA", "U+0CEB", "U+0CEC", "U+0CED", "U+0CEE", "U+0CEF">>,
      <<"U+0D66", "U+0D67", "U+0D68", "U+0D69", "U+0D6A", "U+0D6B", "U+0D6C", "U+0D6D", "U+0D6E", "U+0D6F">>,
      <<"U+0DE6", "U+0DE7", "U+0DE8", "U+0DE9", "U+0DEA", "U+0DEB", "U+0DEC", "U+0DED", "U+0DEE", "U+0DEF">>,
      <<"U+0E50", "U+0E51", "U+0E52", "U+0E53", "U+0E54", "U+0E55", "U+0E56", "U+0E57", "U+0E58", "U+0E59">>,
      <<"U+0ED0", "U+0ED1", "U+0ED2", "U+0ED3", "U+0ED4", "U+0ED5", "U+0ED6", "U+0ED7", "U+0ED8", "U+0ED9">>,
      <<"U+0F20", "U+0F21", "U+0F22", "U+0F23", "U+0F24", "U+0F25", "U+0F26", "U+0F27", "U+0F28", "U+0F29">>,
      <<"U+1040", "U+1041", "U+1042", "U+1043", "U+1044", "U+1045", "U+1046", "U+1047", "U+1048", "U+1049">>,
      <<"U+1090", "U+1091", "U+1092", "U+1093", "U+1094", "U+1095", "U+1096", "U+1097", "U+1098", "U+1099">>,
      <<"U+17E0", "U+17E1", "U+17E2", "U+17E3", "U+17E4", "U+17E5", "U+17E6", "U+17E7", "U+17E8", "U+17E9">>,
      <<"U+1810", "U+1811", "U+1812", "U+1813", "U+1814", "U+1815", "U+1816", "U+1817", "U+1818", "U+1819">>,
      <<"U+1946", "U+1947", "U+1948", "U+1949", "U+194A", "U+194B", "U+194C", "U+194D", "U+194E", "U+194F">>,
      <<"U+19D0", "U+19D1", "U+19D2", "U+19D3", "U+19D4", "U+19D5", "U+19D6", "U+19D7", "U+19D8", "U+19D9">>,
      <<"U+1A80", "U+1A81", "U+1A82", "U+1A83", "U+1A84", "U+1A85", "U+1A86", "U+1A87", "U+1A88", "U+1A89">>,
      <<"U+1A90", "U+1A91", "U+1A92", "U+1A93", "U+1A94", "U+1A95", "U+1A96", "U+1A97", "U+1A98", "U+1A99">>,
      <<"U+1B50", "U+1B51", "U+1B52", "U+1B53", "U+1B54", "U+1B55", "U+1B56", "U+1B57", "U+1B58", "U+1B59">>,
      <<"U+1BB0", "U+1BB1", "U+1BB2", "U+1BB3", "U+1BB4", "U+1BB5", "U+1BB6", "U+1BB7", "U+1BB8", "U+1BB9">>,
      <<"U+1C40", "U+1C41", "U+1C42", "U+1C43", "U+1C44", "U+1C45", "U+1C46", "U+1C47", "U+1C48", "U+1C49">>,
      <<"U+1C50", "U+1C51", "U+1C52", "U+1C53", "U+1C54", "U+1C55", "U+1C56", "U+1C57", "U+1C58", "U+1C59">>,
      <<"U+A620", "U+A621", "U+A622", "U+A623", "U+A624", "U+A625", "U+A626", "U+A627", "U+A628", "U+A629">>,
      <<"U+A8D0", "U+A8D1", "U+A8D2", "U+A8D3", "U+A8D4", "U+A8D5", "U+A8D6", "U+A8D7", "U+A8D8", "U+A8D9">>,
      <<"U+A900", "U+A901", "U+A902", "U+A903", "U+A904", "U+A905", "U+A906", "U+A907", "U+A908", "U+A909">>,
      <<"U+A9D0", "U+A9D1", "U+A9D2", "U+A9D3", "U+A9D4", "U+A9D5", "U+A9D6", "U+A9D7", "U+A9D8", "U+A9D9">>,
      <<"U+A9F0", "U+A9F1", "U+A9F2", "U+A9F3", "U+A9F4", "U+A9F5", "U+A9F6", "U+A9F7", "U+A9F8", "U+A9F9">>,
      <<"U+AA50", "U+AA51", "U+AA52", "U+AA53", "U+AA54", "U+AA55", "U+AA56", "U+AA57", "U+AA58", "U+AA59">>,
      <<"U+ABF0", "U+ABF1", "U+ABF2", "U+ABF3", "U+ABF4", "U+ABF5", "U+ABF6", "U+ABF7", "U+ABF8", "U+ABF9">>,
      <<"U+FF10", "U+FF11", "U+FF12", "U+FF13", "U+FF14", "U+FF15", "U+FF16", "U+FF17", "U+FF18", "U+FF19">>,
      <<"U+104A0", "U+104A1", "U+104A2", "U+104A3", "U+104A4", "U+104A5", "U+104A6", "U+104A7", "U+104A8", "U+104A9">>,
      <<"U+10D30", "U+10D31", "U+10D32", "U+10D33", "U+10D34", "U+10D35", "U+10D36", "U+10D37", "U+10D38", "U+10D39">>,
      <<"U+11066", "U+11067", "U+11068", "U+11069", "U+1106A", "U+1106B", "U+1106C", "U+1106D", "U+1106E", "U+1106F">>,
      <<"U+110F0", "U+110F1", "U+110F2", "U+110F3", "U+110F4", "U+110F5", "U+110F6", "U+110F7", "U+110F8", "U+110F9">>,
      <<"U+11136", "U+11137", "U+11138", "U+11139", "U+1113A", "U+1113B", "U+1113C", "U+1113D", "U+1113E", "U+1113F">>,
      <<"U+111D0", "U+111D1", "U+111D2", "U+111D3", "U+111D4", "U+111D5", "U+111D6", "U+111D7", "U+111D8", "U+111D9">>,
      <<"U+112F0", "U+112F1", "U+112F2", "U+112F3", "U+112F4", "U+112F5", "U+112F6", "U+112F7", "U+112F8", "U+112F9">>,
      <<"U+11450", "U+11451", "U+11452", "U+11453", "U+11454", "U+11455", "U+11456", "U+11457", "U+11458", "U+11459">>,
      <<"U+114D0", "U+114D1", "U+114D2", "U+114D3", "U+114D4", "U+114D5", "U+114D6", "U+114D7", "U+114D8", "U+114D9">>,
      <<"U+11650", "U+11651", "U+11652", "U+11653", "U+11654", "U+11655", "U+11656", "U+11657", "U+11658", "U+11659">>,
      <<"U+116C0", "U+116C1", "U+116C2", "U+116C3", "U+116C4", "U+116C5", "U+116C6", "U+116C7", "U+116C8", "U+116C9">>,
      <<"U+11730", "U+11731", "U+11732", "U+11733", "U+11734", "U+11735", "U+11736", "U+11737", "U+11738", "U+11739">>,
      <<"U+118E0", "U+118E1", "U+118E2", "U+118E3", "U+118E4", "U+118E5", "U+118E6", "U+118E7", "U+118E8", "U+118E9">>,
      <<"U+11950", "U+11951", "U+11952", "U+11953", "U+11954", "U+11955", "U+11956", "U+11957", "U+11958", "U+11959">>,
      <<"U+11C50", "U+11C51", "U+11C52", "U+11C53", "U+11C54", "U+11C55", "U+11C56", "U+11C57", "U+11C58", "U+11C59">>,
      <<"U+11D50", "U+11D51", "U+11D52", "U+11D53", "U+11D54", "U+11D55", "U+11D56", "U+11D57", "U+11D58", "U+11D59">>,
      <<"U+11DA0", "U+11DA1", "U+11DA2", "U+11DA3", "U+11DA4", "U+11DA5", "U+11DA6", "U+11DA7", "U+11DA8", "U+11DA9">>,
      <<"U+16A60", "U+16A61", "U+16A62", "U+16A63", "U+16A64", "U+16A65", "U+16A66", "U+16A67", "U+16A68", "U+16A69">>,
      <<"U+16AC0", "U+16AC1", "U+16AC2", "U+16AC3", "U+16AC4", "U+16AC5", "U+16AC6", "U+16AC7", "U+16AC8", "U+16AC9">>,
      <<"U+16B50", "U+16B51", "U+16B52", "U+16B53", "U+16B54", "U+16B55", "U+16B56", "U+16B57", "U+16B58", "U+16B59">>,
      <<"U+1D7CE", "U+1D7CF", "U+1D7D0", "U+1D7D1", "U+1D7D2", "U+1D7D3", "U+1D7D4", "U+1D7D5", "U+1D7D6", "U+1D7D7">>,
      <<"U+1D7D8", "U+1D7D9", "U+1D7DA", "U+1D7DB", "U+1D7DC", "U+1D7DD", "U+1D7DE", "U+1D7DF", "U+1D7E0", "U+1D7E1">>,
      <<"U+1D7E2", "U+1D7E3", "U+1D7E4", "U+1D7E5", "U+1D7E6", "U+1D7E7", "U+1D7E8", "U+1D7E9", "U+1D7EA", "U+1D7EB">>,
      <<"U+1D7EC", "U+1D7ED", "U+1D7EE", "U+1D7EF", "U+1D7F0", "U+1D7F1", "U+1D7F2", "U+1D7F3", "U+1D7F4", "U+1D7F5">>,
      <<"U+1D7F6", "U+1D7F7", "U+1D7F8", "U+1D7F9", "U+1D7FA", "U+1D7FB", "U+1D7FC", "U+1D7FD", "U+1D7FE", "U+1D7FF">>,
      <<"U+1E140", "U+1E141", "U+1E142", "U+1E143", "U+1E144", "U+1E145", "U+1E146", "U+1E147", "U+1E148", "U+1E149">>,
      <<"U+1E2F0", "U+1E2F1", "U+1E2F2", "U+1E2F3", "U+1E2F4", "U+1E2F5", "U+1E2F6", "U+1E2F7", "U+1E2F8", "U+1E2F9">>,
      <<"U+1E950", "U+1E951", "U+1E952", "U+1E953", "U+1E954", "U+1E955", "U+1E956", "U+1E957", "U+1E958", "U+1E959">>,
      <<"U+1FBF0", "U+1FBF1", "U+1FBF2", "U+1FBF3", "U+1FBF4", "U+1FBF5", "U+1FBF6", "U+1FBF7", "U+1FBF8", "U+1FBF9">>>>

IsDigit(c) ==
    c \in Range(DigitChars) \/ \E b \in DOMAIN OtherDigits : c \in Range(OtherDigits[b])

DigitValue(c) ==
    IF c \in Range(DigitChars) THEN CHOOSE v \in 0..9 : DigitChars[v + 1] = c
    ELSE CHOOSE v \in 0..9 : \E b \in DOMAIN OtherDigits : OtherDigits[b][v + 1] = c

RECURSIVE LStrip(_)
LStrip(s) == IF s # <<>> /\ Head(s) \in WhitespaceChars THEN LStrip(Tail(s)) ELSE s

RECURSIVE RStrip(_)
RStrip(s) ==
    IF s # <<>> /\ s[Len(s)] \in WhitespaceChars
    THEN RStrip(SubSeq(s, 1, Len(s) - 1)) ELSE s

\* The literal without the surrounding whitespace and without its sign.
IntBody(s) ==
    LET b == RStrip(LStrip(s))
    IN  IF b # <<>> /\ b[1] \in {"+", "-"} THEN Tail(b) ELSE b

IntSign(s) ==
    LET b == RStrip(LStrip(s))
    IN  IF b # <<>> /\ b[1] = "-" THEN -1 ELSE 1

\* int(s) accepts s: optional whitespace around an optional sign and decimal
\* digits, single underscores allowed between digits.  Otherwise ValueError.
IsIntLiteral(s) ==
    LET u == IntBody(s)
    IN  /\ u # <<>>
        /\ IsDigit(u[1])
        /\ IsDigit(u[Len(u)])
        /\ \A i \in DOMAIN u :
              IsDigit(u[i]) \/ (u[i] = "_" /\ IsDigit(u[i - 1]) /\ IsDigit(u[i + 1]))

RECURSIVE DigitsValue(_)
DigitsValue(u) ==
    IF u = <<>> THEN 0
    ELSE LET c == u[Len(u)]
             init == SubSeq(u, 1, Len(u) - 1)
         IN  IF c = "_" THEN DigitsValue(init) ELSE 10 * DigitsValue(init) + DigitValue(c)

\* int(s) of a string int accepts.
PyInt(s) == IntSign(s) * DigitsValue(IntBody(s))

\* The file np.save writes with the plate identifier left out of its name.
SaveName_no_plate(plate_num) ==
    <<"s", "p", "l", "i", "t", "_", "f", "i", "t">> \o <<".", "n", "p", "y">>

\* plate_num + '_split_fit', to which np.save appends '.npy'.
SaveName(plate_num) ==
    plate_num \o <<"_", "s", "p", "l", "i", "t", "_", "f", "i", "t">>
              \o <<".", "n", "p", "y">>

Loc(kind, dir, name) == [kind |-> kind, dir |-> dir, name |-> name]

(***************************************************************************)
(* main, lines 44-93.  MainStart is main up to the dispatch of pool.map:   *)
(* the two directory listings, the plates still needed, one pool task per  *)
(* file of SPECTRA.  pool.map cuts SPECTRA into chunks; a pool worker runs  *)
(* the tasks of a chunk in order and drops the rest of the chunk when one  *)
(* raises.  pool.map returns (MainExit) or re-raises a task's exception    *)
(* (MainRaises) once every chunk has ended.                                *)
(***************************************************************************)
Processes == 32

max_num == 10

\* os.listdir(dir): the names of the directory (a set) in any order.
ListDir(S) == {l \in [1..Cardinality(S) -> S] : \A i, j \in DOMAIN l : i # j => l[i] # l[j]}

NoCallMade == [made |-> FALSE, specno |-> 0, num_cont |-> 0, airglow_lines |-> <<>>]

QueuedTask(f) ==
    [pc |-> "queued", spectra_file |-> f, plate_num |-> <<>>,
     BlueVacLines |-> <<>>, RedVacLines |-> <<>>, this_plate |-> <<>>,
     specnos |-> <<>>, i |-> 0, num |-> 0, data |-> <<>>, model |-> <<>>,
     call |-> NoCallMade, err |-> "none", at |-> "none",
     reads |-> {}, writes |-> {}, saves |-> 0, worker |-> 0, state |-> {}]

PlatesNeeded(SPECTRA_FILES, COMPLETE_FILES) ==
    LET Complete_Plate_Names == {PlateSlice(d) : d \in COMPLETE_FILES}
        All_Plate_Names == [x \in DOMAIN SPECTRA_FILES |-> PlateSlice(SPECTRA_FILES[x])]
        plates_needed_idx ==
            Where([x \in DOMAIN SPECTRA_FILES |->
                      All_Plate_Names[x] \notin Complete_Plate_Names])
    IN  Take(SPECTRA_FILES, plates_needed_idx)

MainStart ==
    /\ mainpc \in {"start", "exit", "raised"}
    /\ runsLeft > 0
    /\ runsLeft' = runsLeft - 1
    /\ \E SPECTRA_FILES \in ListDir(DOMAIN spectraDir) :
          SPECTRA' = PlatesNeeded(SPECTRA_FILES, DOMAIN saveDir)
    /\ task' = [t \in DOMAIN SPECTRA' |-> QueuedTask(SPECTRA'[t])]
    /\ mainpc' = "mapping"
    /\ UNCHANGED <<AirglowLines, MetaData, spectraDir, saveDir, callVars, result>>

\* The chunk size pool.map takes for n tasks: n over four times the number of
\* processes, rounded up.
ChunkSize(n) ==
    IF n = 0 THEN 0
    ELSE n \div (4 * Processes) + (IF n % (4 * Processes) = 0 THEN 0 ELSE 1)

ChunkOf(t) == (t - 1) \div ChunkSize(Len(task))

ChunkTasks(c) == {u \in DOMAIN task : ChunkOf(u) = c}

\* The worker has run every task of the chunk, or one of them has raised and the
\* tasks after it are never started.
ChunkEnded(c) ==
    \/ \A u \in ChunkTasks(c) : task[u].pc = "done"
    \/ \E u \in ChunkTasks(c) : task[u].pc = "raised"

MainExit ==
    /\ mainpc = "mapping"
    /\ \A t \in DOMAIN task : task[t].pc = "done"
    /\ mainpc' = "exit"
    /\ UNCHANGED <<AirglowLines, MetaData, spectraDir, saveDir, SPECTRA, runsLeft, task,
                   callVars, result>>

MainRaises ==
    /\ mainpc = "mapping"
    /\ \A t \in DOMAIN task : ChunkEnded(ChunkOf(t))
    /\ \E t \in DOMAIN task : task[t].pc = "raised"
    /\ mainpc' = "raised"
    /\ UNCHANGED <<AirglowLines, MetaData, spectraDir, saveDir, SPECTRA, runsLeft, task,
                   callVars, result>>

(***************************************************************************)
(* fit_and_separate_spectra, lines 186-227, one pool task t.               *)
(***************************************************************************)
Running(t) == task[t].pc \in {"fitting", "recording", "persisting", "opened", "writing"}

\* The worker holds a chunk it has not finished.
Busy(w) == \E u \in DOMAIN task : task[u].worker = w /\ ~ChunkEnded(ChunkOf(u))

\* The pool workers that can take the next chunk.  The workers are alike: those
\* that have run no task yet are represented by the one of least index.
IdleWorkers ==
    LET used == {task[u].worker : u \in DOMAIN task} \ {0}
        fresh == (1..Processes) \ used
    IN  {w \in used : ~Busy(w)}
            \cup {w \in fresh : \A v \in fresh : w <= v}

\* The workers that can run task t: the one that holds its chunk, or an idle one
\* for the first task of a chunk.
WorkersFor(t) ==
    IF \E u \in ChunkTasks(ChunkOf(t)) : u < t THEN {task[t - 1].worker}
    ELSE IdleWorkers

\* The tasks of the chunk before t have returned.
CanStart(t) == \A u \in ChunkTasks(ChunkOf(t)) : u < t => task[u].pc = "done"

\* The state of the global numpy generator of a worker process, which
\* np.random.choice reads and advances.
RandomState(w) ==
    Loc("numpy.random", "worker", <<DigitChars[(w \div 10) + 1], DigitChars[(w % 10) + 1]>>)

\* The draw cut to the number of entries of a.
RandomChoice_at_most_len(a, size) ==
    {[i \in 1..Min(size, Len(a)) |-> a[idx[i]]] : idx \in [1..size -> DOMAIN a]}

\* np.random.choice(a, size): every sequence of size entries of a, drawn with
\* replacement.  An empty a raises ValueError (no outcome).
RandomChoice(a, size) ==
    {[i \in 1..size |-> a[idx[i]]] : idx \in [1..size -> DOMAIN a]}

\* MetaData[MetaData['PLATE'] == int(plate_num)]
ThisPlate(plate_num) ==
    Mask(MetaData, [r \in DOMAIN MetaData |-> MetaData[r].PLATE = PyInt(plate_num)])

\* Lines 187-196.
SelectSpectra(t) ==
    /\ mainpc = "mapping"
    /\ task[t].pc = "queued"
    /\ CanStart(t)
    /\ \E w \in WorkersFor(t) :
       LET lists == get_vac_lines(AirglowLines)
           plate_num == PlateSlice(task[t].spectra_file)
           reads == {Loc("global", "", <<"AirglowLines">>),
                     Loc("file", "SPECTRA_DIR", task[t].spectra_file),
                     Loc("global", "", <<"MetaData">>)}
       IN  \/ /\ IsIntLiteral(plate_num)
              /\ ThisPlate(plate_num) # <<>>
              /\ \E specnos \in RandomChoice(Column(ThisPlate(plate_num), "SPECNO"), max_num) :
                    task' = [task EXCEPT ![t] =
                               [@ EXCEPT !.pc = "fitting", !.plate_num = plate_num,
                                         !.BlueVacLines = lists[1],
                                         !.RedVacLines = lists[2],
                                         !.this_plate = ThisPlate(plate_num),
                                         !.specnos = specnos, !.i = 0, !.num = 0,
                                         !.data = <<>>, !.reads = reads,
                                         !.worker = w,
                                         !.state = {RandomState(w)}]]
           \/ /\ IsIntLiteral(plate_num) => ThisPlate(plate_num) = <<>>
              /\ task' = [task EXCEPT ![t] =
                            [@ EXCEPT !.pc = "raised", !.plate_num = plate_num,
                                      !.err = "ValueError", !.at = "select",
                                      !.reads = reads, !.worker = w]]
    /\ UNCHANGED <<AirglowLines, MetaData, spectraDir, saveDir, mainpc, SPECTRA, runsLeft,
                   callVars, result>>

\* this_plate[this_plate['SPECNO'] == specno]
ThisObs(this_plate, specno) ==
    Mask(this_plate, [r \in DOMAIN this_plate |-> this_plate[r].SPECNO = specno])

\* Lines 203-209 with the two bases exchanged.
SelectBasis_swapped(CAMERAS, Blue, Red) ==
    IF CAMERAS = "b1" \/ CAMERAS = "b2"
    THEN [fit |-> TRUE, num_cont |-> 3, airglow_lines |-> Red]
    ELSE IF CAMERAS = "r1" \/ CAMERAS = "r2"
         THEN [fit |-> TRUE, num_cont |-> 4, airglow_lines |-> Blue]
         ELSE [fit |-> FALSE, num_cont |-> 0, airglow_lines |-> <<>>]

\* Lines 203-209: the branch on the detector arm.
SelectBasis(CAMERAS, Blue, Red) ==
    IF CAMERAS = "b1" \/ CAMERAS = "b2"
    THEN [fit |-> TRUE, num_cont |-> 4, airglow_lines |-> Blue]
    ELSE IF CAMERAS = "r1" \/ CAMERAS = "r2"
         THEN [fit |-> TRUE, num_cont |-> 3, airglow_lines |-> Red]
         ELSE [fit |-> FALSE, num_cont |-> 0, airglow_lines |-> <<>>]

\* A value held in the list `model`: the integer 0, an array of len entries that
\* linear_model returned, or its float R.
PyZero == [type |-> "int", name |-> "0", spec |-> 0, len |-> 0]

NdArray(name, specno, len) ==
    [type |-> "ndarray", name |-> name, spec |-> specno, len |-> len]

Float64(name, specno) == [type |-> "float64", name |-> name, spec |-> specno, len |-> 0]

\* spectra[specno] of the plate file.
SpectrumOf(spectra_file, specno) == spectraDir[spectra_file][specno + 1]

\* [wave_range, lines, cont, res, R] of linear_model(spectra[specno], ...): four
\* arrays over the cleaned samples of the spectrum, and R.
FitModel(spectra_file, specno) ==
    LET n == Len(clean_spectra(SpectrumOf(spectra_file, specno))[1])
    IN  <<NdArray("wave_range", specno, n), NdArray("lines", specno, n),
          NdArray("cont", specno, n), NdArray("res", specno, n), Float64("R", specno)>>

ZeroModel == <<PyZero, PyZero, PyZero, PyZero, PyZero>>

\* len(x) raises TypeError on an integer.
HasLen(x) == x.type = "ndarray"

CallOf(basis, specno) ==
    IF basis.fit
    THEN [made |-> TRUE, specno |-> specno, num_cont |-> basis.num_cont,
          airglow_lines |-> basis.airglow_lines]
    ELSE NoCallMade

\* Lines 198-210: one pass of the loop up to the model of the spectrum, or the end
\* of the loop.  linear_model raises when its design matrix cannot be stacked, and
\* may raise on the spectrum's data (FitRaises).
FitOne(t) ==
    /\ mainpc = "mapping"
    /\ task[t].pc = "fitting"
    /\ task[t].i < Len(task[t].specnos)
    /\ task[t].num < max_num
    /\ LET specno == task[t].specnos[task[t].i + 1]
           this_obs == ThisObs(task[t].this_plate, specno)
           basis == SelectBasis(this_obs[1].CAMERAS, task[t].BlueVacLines,
                                task[t].RedVacLines)
       IN  \/ /\ Len(this_obs) = 1
              /\ basis.fit => ~DesignRaises(<<>>, basis.num_cont, basis.airglow_lines)
              /\ task' = [task EXCEPT ![t] =
                            [@ EXCEPT !.pc = "recording",
                                      !.call = CallOf(basis, specno),
                                      !.model = IF basis.fit
                                                THEN FitModel(task[t].spectra_file,
                                                              specno)
                                                ELSE ZeroModel]]
           \/ /\ Len(this_obs) = 1 => basis.fit
              /\ task' = [task EXCEPT ![t] =
                            [@ EXCEPT !.pc = "raised",
                                      !.call = IF Len(this_obs) = 1
                                               THEN CallOf(basis, specno)
                                               ELSE NoCallMade,
                                      !.err = IF Len(this_obs) = 1 THEN "FitError"
                                              ELSE "ValueError",
                                      !.at = "fit"]]
    /\ UNCHANGED <<AirglowLines, MetaData, spectraDir, saveDir, mainpc, SPECTRA, runsLeft,
                   callVars, result>>

\* The loop is exhausted, or its else branch breaks.
LoopEnd(t) ==
    /\ mainpc = "mapping"
    /\ task[t].pc = "fitting"
    /\ ~(task[t].i < Len(task[t].specnos)) \/ ~(task[t].num < max_num)
    /\ task' = [task EXCEPT ![t] = [@ EXCEPT !.pc = "persisting"]]
    /\ UNCHANGED <<AirglowLines, MetaData, spectraDir, saveDir, mainpc, SPECTRA, runsLeft,
                   callVars, result>>

\* model_fit: a structured array of len(model[0]) rows.
FitRecord(plate_num, this_obs, specno, model) ==
    [ROWS |-> model[1].len, PLATE |-> PyInt(plate_num), COLOR |-> this_obs[1].CAMERAS,
     NUM |-> specno, MODEL |-> model]

\* RecordResult with np.save moved into the loop: the collection is written after
\* every append.
RecordResult_saves_each(t) ==
    /\ mainpc = "mapping"
    /\ task[t].pc = "recording"
    /\ LET specno == task[t].specnos[task[t].i + 1]
           this_obs == ThisObs(task[t].this_plate, specno)
           rec == FitRecord(task[t].plate_num, this_obs, specno, task[t].model)
           name == task[t].plate_num \o <<"_", "s", "p", "l", "i", "t", "_", "f", "i", "t">>
                                     \o <<".", "n", "p", "y">>
       IN  \/ /\ task[t].model[1].type = "ndarray"
              /\ task' = [task EXCEPT ![t] =
                            [@ EXCEPT !.pc = "fitting", !.data = Append(@, rec),
                                      !.num = @ + 1, !.i = @ + 1]]
              /\ saveDir' = [n \in DOMAIN saveDir \cup {name} |->
                                IF n = name
                                THEN [written |-> TRUE, data |-> Append(task[t].data, rec),
                                      header |-> <<Len(task[t].data) + 1, rec.ROWS>>,
                                      tail |-> <<>>]
                                ELSE saveDir[n]]
           \/ /\ task[t].model[1].type # "ndarray"
              /\ task' = [task EXCEPT ![t] =
                            [@ EXCEPT !.pc = "raised", !.err = "TypeError",
                                      !.at = "record"]]
              /\ UNCHANGED saveDir
    /\ UNCHANGED <<AirglowLines, MetaData, spectraDir, mainpc, SPECTRA, runsLeft,
                   callVars, result>>

\* Lines 212-223.  The wall-clock TIME of the record is left out.
RecordResult(t) ==
    /\ mainpc = "mapping"
    /\ task[t].pc = "recording"
    /\ LET specno == task[t].specnos[task[t].i + 1]
           this_obs == ThisObs(task[t].this_plate, specno)
       IN  \/ /\ HasLen(task[t].model[1])
              /\ task' = [task EXCEPT ![t] =
                            [@ EXCEPT !.pc = "fitting",
                                      !.data = Append(@, FitRecord(task[t].plate_num,
                                                        this_obs, specno, task[t].model)),
                                      !.num = @ + 1, !.i = @ + 1]]
           \/ /\ ~HasLen(task[t].model[1])
              /\ task' = [task EXCEPT ![t] =
                            [@ EXCEPT !.pc = "raised", !.err = "TypeError",
                                      !.at = "record"]]
    /\ UNCHANGED <<AirglowLines, MetaData, spectraDir, saveDir, mainpc, SPECTRA, runsLeft,
                   callVars, result>>

\* np.save(path, data) opens the file at path for writing, which empties it,
\* converts data to an array, writes the header of the array (its shape) at the
\* start of the file and the elements of the array after the header.  Each open
\* has its own position in the file, so a write lands at its position whatever
\* another task has done to the file since.  A file is its header (<<>> when
\* the file has none), the records whose elements follow the header, and the
\* elements an earlier, longer write has left after them.

\* The elements of the array of the records, in storage order.
RECURSIVE FlatOf(_)
FlatOf(data) ==
    IF data = <<>> THEN <<>>
    ELSE FlatOf(SubSeq(data, 1, Len(data) - 1))
            \o [j \in 1..data[Len(data)].ROWS |-> [rec |-> data[Len(data)], row |-> j]]

EmptyFile == [written |-> FALSE, data |-> <<>>, header |-> <<>>, tail |-> <<>>]

\* The elements the file holds after its header.
ContentOf(file) == FlatOf(file.data) \o file.tail

FileAt(dir, name) == IF name \in DOMAIN dir THEN dir[name] ELSE EmptyFile

\* open(path, "wb"): the file exists and is empty.
NpOpen(dir, name) ==
    [n \in DOMAIN dir \cup {name} |-> IF n = name THEN EmptyFile ELSE dir[n]]

\* The records do not all have one number of rows: np.asanyarray(data) makes an
\* object array of them (numpy before 1.24) or raises ValueError (from 1.24 on).
Ragged(data) == \E i, j \in DOMAIN data : data[i].ROWS # data[j].ROWS

\* The shape of np.asanyarray(data).
ArrayShape(data) ==
    IF data = <<>> THEN <<0>>
    ELSE IF Ragged(data) THEN <<Len(data)>>
         ELSE <<Len(data), data[1].ROWS>>

\* The header written at the start of the file.
NpHeader(dir, name, data) ==
    [n \in DOMAIN dir \cup {name} |->
        IF n = name THEN [FileAt(dir, name) EXCEPT !.header = ArrayShape(data)]
        ELSE dir[n]]

\* The elements written after the header: they replace as many elements as they
\* are, and what the file held beyond them stays.
NpSave(dir, name, data) ==
    [n \in DOMAIN dir \cup {name} |->
        IF n = name
        THEN LET held == ContentOf(FileAt(dir, name))
             IN  [written |-> TRUE, data |-> data,
                  header |-> FileAt(dir, name).header,
                  tail |-> SubSeq(held, Len(FlatOf(data)) + 1, Len(held))]
        ELSE dir[n]]

\* Line 227, np.save opens the file.
SaveOpen(t) ==
    /\ mainpc = "mapping"
    /\ task[t].pc = "persisting"
    /\ LET name == SaveName(task[t].plate_num)
       IN  /\ saveDir' = NpOpen(saveDir, name)
           /\ task' = [task EXCEPT ![t] =
                         [@ EXCEPT !.pc = "opened",
                                   !.writes = @ \cup {Loc("file", "SAVE_DIR", name)}]]
    /\ UNCHANGED <<AirglowLines, MetaData, spectraDir, mainpc, SPECTRA, runsLeft,
                   callVars, result>>

\* Line 227, np.save converts the records and writes the header, or the
\* conversion raises and leaves the file as it is.
SaveHeader(t) ==
    /\ mainpc = "mapping"
    /\ task[t].pc = "opened"
    /\ LET name == SaveName(task[t].plate_num)
       IN  \/ /\ saveDir' = NpHeader(saveDir, name, task[t].data)
              /\ task' = [task EXCEPT ![t] = [@ EXCEPT !.pc = "writing"]]
           \/ /\ Ragged(task[t].data)
              /\ task' = [task EXCEPT ![t] =
                            [@ EXCEPT !.pc = "raised", !.err = "ValueError",
                                      !.at = "save"]]
              /\ UNCHANGED saveDir
    /\ UNCHANGED <<AirglowLines, MetaData, spectraDir, mainpc, SPECTRA, runsLeft,
                   callVars, result>>

\* Line 227, np.save writes the elements and returns.
SaveData(t) ==
    /\ mainpc = "mapping"
    /\ task[t].pc = "writing"
    /\ saveDir' = NpSave(saveDir, SaveName(task[t].plate_num), task[t].data)
    /\ task' = [task EXCEPT ![t] = [@ EXCEPT !.pc = "done", !.saves = @ + 1]]
    /\ UNCHANGED <<AirglowLines, MetaData, spectraDir, mainpc, SPECTRA, runsLeft,
                   callVars, result>>

\* Line 227: the steps of np.save, which the tasks of other workers interleave.
PersistBatch(t) == SaveOpen(t) \/ SaveHeader(t) \/ SaveData(t)

(***************************************************************************)
(* The batch runs.  InitOnePlate: one plate file of no, one or two spectra. *)
(* InitNamed: one plate file whose name does not have the plain 4-digit    *)
(* identifier at [-23:-19].  InitPlates: no, one or two plate files of one  *)
(* spectrum each, of up to MaxPlates plates; two files may carry one plate *)
(* identifier.  SPECNO is the position of the spectrum in its plate file,  *)
(* so it is unique within a plate.                                         *)
(***************************************************************************)
Tags == {"b1", "b2", "r1", "r2", "xx"}

PoolTags == {"b1", "xx"}

Sample(sky) == [SKY |-> sky, SIGMA |-> Fin(1), DISP |-> 1]

\* A spectrum with one finite flux, and one with two around a nan.
ShortSpectrum == OnGrid(<<Sample(Fin(7))>>)

LongSpectrum == OnGrid(<<Sample(Fin(7)), Sample(NaN), Sample(Fin(7))>>)

Row(tag, spec) == [CAMERAS |-> tag, spectrum |-> spec]

\* The rows of a plate of two spectra.
RowKinds ==
    {Row("b1", ShortSpectrum), Row("r1", ShortSpectrum), Row("r1", LongSpectrum),
     Row("xx", ShortSpectrum)}

PlateTables ==
    {<<>>} \cup {<<Row(tag, ShortSpectrum)>> : tag \in Tags} \cup (RowKinds \X RowKinds)

\* The metadata rows and the file content of a plate with the given rows.
MetaRows(plate, rows) ==
    [r \in DOMAIN rows |-> [PLATE |-> plate, SPECNO |-> r - 1, CAMERAS |-> rows[r].CAMERAS]]

FileOf(name, rows) == [f \in {name} |-> [r \in DOMAIN rows |-> rows[r].spectrum]]

\* File names whose characters [-23:-19] are not four ASCII digits, and one too
\* short to have any.
OddPlateIds ==
    {<<"+", "3", "5", "8">>, <<" ", "3", "5", "8">>, <<"-", "3", "5", "8">>,
     <<"3", "_", "5", "8">>, <<"3", "5", "8", "_">>, <<"3", "5", " ", "8">>,
     <<"U+0663", "5", "8", "\t">>, <<"3", "5", "8", "x">>,
     <<"U+2003", "3", "5", "8">>, <<"U+0665", "3", "5", "8">>,
     <<"3", "5", "U+1D7EA", "U+3000">>, <<"U+001C", "3", "5", "8">>}

OddNames == {id \o InputSuffix : id \in OddPlateIds} \cup {<<"x", ".", "n", "p", "y">>}

BatchCatalog ==
    <<[obs_wave |-> 5000, obs_eint |-> 11], [obs_wave |-> 6000, obs_eint |-> 11],
      [obs_wave |-> 8000, obs_eint |-> 4]>>

InitBatch ==
    /\ AirglowLines = BatchCatalog
    /\ saveDir = <<>>
    /\ mainpc = "start"
    /\ SPECTRA = <<>>
    /\ task = <<>>
    /\ NoCall
    /\ result = [fn |-> "none"]

InitOnePlate ==
    /\ InitBatch
    /\ \E rows \in PlateTables :
          /\ spectraDir = FileOf(InputName(1), rows)
          /\ MetaData = MetaRows(PyInt(PlateDigits(1)), rows)
    /\ runsLeft = 1

InitNamed ==
    /\ InitBatch
    /\ \E name \in OddNames : spectraDir = FileOf(name, <<Row("b1", ShortSpectrum)>>)
    /\ MetaData = MetaRows(PyInt(<<"3", "5", "8">>), <<Row("b1", ShortSpectrum)>>)
    /\ runsLeft = 1

\* A second file of plate k: a longer name with the same characters [-23:-19].
SecondName(k) == <<"x">> \o InputName(k)

\* The spectra of a plate file: one spectrum, a longer one in the second file of
\* a plate.
PoolFile(h) == IF h = SecondName(1) THEN <<LongSpectrum>> ELSE <<ShortSpectrum>>

PoolNames == {InputName(k) : k \in 1..MaxPlates} \cup {SecondName(1)}

InitPlates ==
    /\ InitBatch
    /\ \E f, g \in PoolNames :
          \E names \in {{}, {f, g}} : spectraDir = [h \in names |-> PoolFile(h)]
    /\ \E tags \in [1..MaxPlates -> PoolTags] :
          MetaData = [k \in 1..MaxPlates |->
                        [PLATE |-> PyInt(PlateDigits(k)), SPECNO |-> 0,
                         CAMERAS |-> tags[k]]]

\* One run over a directory of several plate files.
InitPool == InitPlates /\ runsLeft = 1

\* The plate files of the directory differ pairwise in the characters [-23:-19]
\* of their names.
DistinctSlices ==
    \A f, g \in DOMAIN spectraDir : PlateSlice(f) = PlateSlice(g) => f = g

\* One run over a directory of one plate file, or of several with different plate
\* identifiers.
Init == InitOnePlate \/ InitNamed \/ (InitPool /\ DistinctSlices)

\* The program started up to MaxRuns times over the same two directories.
InitRerun == InitPlates /\ runsLeft = MaxRuns

Next ==
    \/ MainStart
    \/ MainExit
    \/ MainRaises
    \/ \E t \in DOMAIN task : SelectSpectra(t)
    \/ \E t \in DOMAIN task : FitOne(t)
    \/ \E t \in DOMAIN task : LoopEnd(t)
    \/ \E t \in DOMAIN task : RecordResult(t)
    \/ \E t \in DOMAIN task : PersistBatch(t)

Spec == Init /\ [][Next]_vars

SpecPool == InitPool /\ [][Next]_vars

SpecRerun == InitRerun /\ [][Next]_vars

(***************************************************************************)
(* Claims about the batch run.                                             *)
(***************************************************************************)
Recognized == {"b1", "b2", "r1", "r2"}

\* The task has drawn its spectra.
Selected(t) == task[t].pc # "queued" /\ task[t].at # "select"

\* The task is at a spectrum of its draw (the one being fitted or recorded, or the
\* one it raised on).
AtSpectrum(t) == Selected(t) /\ task[t].i < Len(task[t].specnos)

\* The detector-arm tag the metadata records for the spectrum the task is at.
TagAt(t) ==
    LET plate == PyInt(PlateSlice(task[t].spectra_file))
        specno == task[t].specnos[task[t].i + 1]
        r == CHOOSE x \in DOMAIN MetaData :
                 MetaData[x].PLATE = plate /\ MetaData[x].SPECNO = specno
    IN  MetaData[r].CAMERAS

\* C1, as stated: a sampled spectrum whose tag is none of b1, b2, r1, r2 runs no
\* fit and yields the degenerate model (0,0,0,0,0) without raising, so the task
\* never ends raised at such a spectrum.
C1_DegenerateRecorded ==
    \A t \in DOMAIN task :
        (AtSpectrum(t) /\ TagAt(t) \notin Recognized) =>
            /\ ~task[t].call.made
            /\ task[t].pc = "recording" => task[t].model = ZeroModel
            /\ task[t].pc # "raised"

\* C4: the basis follows from the tag alone: b1 or b2 calls linear_model with the
\* short-band list and 4 continuum terms, r1 or r2 with the long-band list and 3,
\* any other tag makes no call, and no other pairing is ever passed.
C4_BasisByTag ==
    \A t \in DOMAIN task :
        (AtSpectrum(t) /\ (task[t].pc = "recording" \/ task[t].at = "fit")) =>
            LET lists == get_vac_lines(AirglowLines)
                specno == task[t].specnos[task[t].i + 1]
                call == task[t].call
            IN  /\ TagAt(t) \in {"b1", "b2"} =>
                      call = [made |-> TRUE, specno |-> specno, num_cont |-> 4,
                              airglow_lines |-> lists[1]]
                /\ TagAt(t) \in {"r1", "r2"} =>
                      call = [made |-> TRUE, specno |-> specno, num_cont |-> 3,
                              airglow_lines |-> lists[2]]
                /\ TagAt(t) \notin Recognized => ~call.made
                /\ call.made =>
                      \/ call.airglow_lines = lists[1] /\ call.num_cont = 4
                      \/ call.airglow_lines = lists[2] /\ call.num_cont = 3

\* A task that recorded a blue-arm fit and now holds the model of a red-arm one.
C4_Witness ==
    \E t \in DOMAIN task :
        /\ task[t].pc = "recording"
        /\ Len(task[t].data) >= 1
        /\ task[t].data[1].COLOR \in {"b1", "b2"}
        /\ TagAt(t) \in {"r1", "r2"}
        /\ task[t].call.made
        /\ task[t].call.num_cont = 3

\* C6, as stated: the output of a plate task is written only once every sampled
\* spectrum has a record, it is written once, and a task that has selected its
\* spectra fails to reach Done only if one of its fits raised.
C6_Lifecycle ==
    \A t \in DOMAIN task :
        /\ task[t].saves <= 1
        /\ task[t].saves = 1 =>
              /\ task[t].pc = "done"
              /\ Len(task[t].data) = Len(task[t].specnos)
        /\ task[t].pc = "done" => task[t].saves = 1
        /\ (Selected(t) /\ task[t].pc = "raised") => task[t].err = "FitError"

\* C7: a task that raised while fitting or recording a spectrum has written
\* nothing: the save directory holds no output unit of its plate, and the records
\* it had collected are in no file.
C7_NoOutputOnFailure ==
    \A t \in DOMAIN task :
        (task[t].pc = "raised" /\ task[t].at \in {"fit", "record"}) =>
            /\ task[t].writes = {}
            /\ task[t].saves = 0
            /\ SaveName(task[t].plate_num) \notin DOMAIN saveDir

\* A task that raised after it had collected records.
C7_Witness ==
    \E t \in DOMAIN task :
        /\ task[t].pc = "raised"
        /\ task[t].at \in {"fit", "record"}
        /\ Len(task[t].data) >= 1
        /\ saveDir = <<>>

WritersOf(name) ==
    {t \in DOMAIN task : Loc("file", "SAVE_DIR", name) \in task[t].writes}

\* What the task has written, and what it has read: files, globals and the state
\* of its worker process.
Written(t) == task[t].writes \cup task[t].state

ReadBy(t) == task[t].reads \cup task[t].state

\* C8, as stated: under every interleaving of the pool's tasks, each output file
\* is written by at most one task of the run, and no task reads or writes a
\* location that another task writes.
C8_DisjointWrites ==
    /\ \A t \in DOMAIN task :
          \A name \in {SaveName(PlateSlice(task[t].spectra_file))} :
              Cardinality(WritersOf(name)) <= 1
    /\ \A name \in DOMAIN saveDir : Cardinality(WritersOf(name)) = 1
    /\ \A t, u \in DOMAIN task :
          t # u => Written(t) \cap (Written(u) \cup ReadBy(u)) = {}

SameSlice(t, u) == PlateSlice(task[t].spectra_file) = PlateSlice(task[u].spectra_file)

OutputOf(t) == Loc("file", "SAVE_DIR", SaveName(PlateSlice(task[t].spectra_file)))

\* C8, amended: under every interleaving of the pool's tasks, a task writes
\* nothing but the output file named by the characters [-23:-19] of its input
\* file name and the random generator state of the worker process that runs it.
\* Two tasks write one output file only when their input names agree on those
\* characters, so when the names of the run differ pairwise there, every output
\* file has one writer and holds, once its task is done, the array of that task
\* and nothing else.  The only other location one task writes and another reads
\* or writes is the generator state of a worker that runs both, and a worker
\* runs one task at a time.
C8_SharedOnly ==
    /\ \A t \in DOMAIN task :
          /\ task[t].writes \subseteq {OutputOf(t)}
          /\ task[t].state \subseteq {RandomState(task[t].worker)}
    /\ \A t, u \in DOMAIN task :
          t # u =>
              /\ Written(t) \cap (Written(u) \cup ReadBy(u)) \subseteq
                     (IF SameSlice(t, u) THEN {OutputOf(t)} ELSE {})
                        \cup (IF task[t].worker = task[u].worker
                              THEN {RandomState(task[t].worker)} ELSE {})
              /\ (Running(t) /\ Running(u)) => task[t].worker # task[u].worker
              /\ (SameSlice(t, u) /\ task[t].pc = "done" /\ task[u].pc = "done") =>
                     {t, u} \subseteq WritersOf(SaveName(task[t].plate_num))
    /\ (\A t, u \in DOMAIN task : t # u => ~SameSlice(t, u)) =>
          /\ \A name \in DOMAIN saveDir : Cardinality(WritersOf(name)) = 1
          /\ \A t \in DOMAIN task :
                task[t].pc = "done" =>
                    saveDir[SaveName(task[t].plate_num)] =
                        [written |-> TRUE, data |-> task[t].data,
                         header |-> ArrayShape(task[t].data), tail |-> <<>>]

\* Two tasks of one run with different plate identifiers, run one after the other
\* by the same worker, that have both written their output.
C8_Witness ==
    \E t, u \in DOMAIN task :
        /\ t # u
        /\ ~SameSlice(t, u)
        /\ task[t].pc = "done"
        /\ task[u].pc = "done"
        /\ task[t].worker = task[u].worker
        /\ Cardinality(DOMAIN saveDir) >= 2

\* C9, as stated: main dispatches exactly the plate files that have no output unit
\* (plate identifier + '_split_fit.npy') in the save directory.
C9_SkipsCompleted ==
    (mainpc = "mapping" /\ \A t \in DOMAIN task : task[t].pc = "queued") =>
        \A f \in DOMAIN spectraDir :
            f \in Range(SPECTRA) <=> SaveName(PlateSlice(f)) \notin DOMAIN saveDir

\* C10: a task that reaches np.save hands it exactly max_num records, record i
\* carrying the i-th drawn identifier, whatever the number of metadata rows of the
\* plate, and the collection it stores is that one; the draw has max_num entries
\* and the loop's guard num < max_num holds at every pass.
C10_TenRecords ==
    \A t \in DOMAIN task :
        /\ Selected(t) => Len(task[t].specnos) = max_num
        /\ AtSpectrum(t) => task[t].num < max_num
        /\ (task[t].pc = "persisting" \/ task[t].at = "save") =>
              /\ Len(task[t].data) = max_num
              /\ \A i \in 1..max_num : task[t].data[i].NUM = task[t].specnos[i]
        /\ task[t].pc = "done" =>
              LET stored == saveDir[SaveName(task[t].plate_num)].data
              IN  /\ Len(stored) = max_num
                  /\ \A i \in 1..max_num : stored[i].NUM = task[t].specnos[i]

\* A plate of two spectra persisted with ten records, the first identifier drawn
\* again at the third and the fourth place.
C10_Witness ==
    \E t \in DOMAIN task :
        /\ task[t].pc = "done"
        /\ Len(task[t].this_plate) = 2
        /\ LET stored == saveDir[SaveName(task[t].plate_num)].data
           IN  /\ Len(stored) = 10
               /\ stored[1].NUM # stored[2].NUM
               /\ stored[3].NUM = stored[1].NUM
               /\ stored[4].NUM = stored[1].NUM

(***************************************************************************)
(* Claims about the three functions.                                       *)
(***************************************************************************)
VacOf(e) == air_to_vac(<<e.obs_wave>>)[1]

InBothBands(e) ==
    /\ e.obs_eint > BlueMinInt
    /\ VacOf(e) > RedMinWave * VacScale
    /\ VacOf(e) < BlueMaxWave * VacScale

\* C5, as stated: the short-band and the long-band line lists returned by
\* get_vac_lines are disjoint, no catalog line appears in both.
C5_Disjoint ==
    result.fn = "get_vac_lines" => Range(result.blue) \cap Range(result.red) = {}

\* C5, amended: the short-band list holds the converted wavelengths of the lines
\* with intensity > 10 below 700, the long-band list those of the lines with
\* intensity > 3 above 560, and the wavelengths they share are exactly those of the
\* catalog lines with intensity > 10 and converted wavelength between 560 and 700.
C5_SharedExactly ==
    result.fn = "get_vac_lines" =>
        LET cat == Range(AirglowLines)
        IN  /\ Range(result.blue) =
                  {VacOf(e) : e \in {x \in cat : x.obs_eint > BlueMinInt
                                              /\ VacOf(x) < BlueMaxWave * VacScale}}
            /\ Range(result.red) =
                  {VacOf(e) : e \in {x \in cat : x.obs_eint > RedMinInt
                                              /\ VacOf(x) > RedMinWave * VacScale}}
            /\ Range(result.blue) \cap Range(result.red) =
                  {VacOf(e) : e \in {x \in cat : InBothBands(x)}}

\* A catalog with a line in both lists and a weaker line that is above 560 nm only
\* once converted, so that the long-band list is the longer one.
C5_Witness ==
    /\ result.fn = "get_vac_lines"
    /\ Range(result.blue) \cap Range(result.red) # {}
    /\ \E i \in DOMAIN AirglowLines :
          /\ AirglowLines[i].obs_wave < RedMinWave * 10
          /\ VacOf(AirglowLines[i]) \in Range(result.red)
          /\ VacOf(AirglowLines[i]) \notin Range(result.blue)

FiniteUpTo(spec, j) == {q \in 1..j : isfinite(spec[q].SKY)}

\* C3: clean_spectra returns four sequences of length n - k (k the non-finite
\* fluxes among the n samples); entry i of all four comes from one original sample,
\* the i-th sample with a finite flux, so the order is kept and no sample with a
\* finite flux is dropped.
C3_CleanAligned ==
    result.fn = "clean_spectra" =>
        LET n == Len(spectrum)
            k == Cardinality({q \in 1..n : ~isfinite(spectrum[q].SKY)})
        IN  /\ Len(result.wave) = n - k
            /\ Len(result.sky) = n - k
            /\ Len(result.sigma) = n - k
            /\ Len(result.disp) = n - k
            /\ \A i \in 1..(n - k) :
                  \E j \in 1..n :
                     /\ isfinite(spectrum[j].SKY)
                     /\ Cardinality(FiniteUpTo(spectrum, j)) = i
                     /\ result.wave[i] = spectrum[j].WAVE
                     /\ result.sky[i] = spectrum[j].SKY
                     /\ result.sigma[i] = spectrum[j].SIGMA
                     /\ result.disp[i] = spectrum[j].DISP

\* A spectrum cleaned to two samples around a dropped one, a kept sample having a
\* non-finite sigma.
C3_Witness ==
    /\ result.fn = "clean_spectra"
    /\ Len(spectrum) = 3
    /\ ~isfinite(spectrum[2].SKY)
    /\ ~isfinite(spectrum[3].SIGMA)
    /\ spectrum[1].DISP # spectrum[3].DISP
    /\ Len(result.wave) = 2
    /\ result.wave[2] = spectrum[3].WAVE

RECURSIVE SumCols(_, _, _, _)
SumCols(row, coef, a, b) ==
    IF a > b THEN RInt(0)
    ELSE RAdd(RMul(row[a], coef[a]), SumCols(row, coef, a + 1, b))

\* The finite fluxes of a spectrum, in order.
CleanFlux(spec) ==
    LET f == SelectSeq(Column(spec, "SKY"), isfinite)
    IN  [j \in DOMAIN f |-> f[j].v]

\* C2: when linear_model returns, cont + lines + res is the cleaned flux at every
\* sample, cont is the first num_cont columns times the first num_cont coefficients,
\* lines is the remaining columns times the remaining coefficients, and the three
\* have the length of the cleaned wavelength grid.
C2_Reconstruction ==
    (result.fn = "linear_model" /\ ~result.raised) =>
        LET flux == CleanFlux(spectrum)
            m == num_cont + Len(airglow_lines)
        IN  /\ Len(result.wave_range) = Len(flux)
            /\ Len(result.cont) = Len(flux)
            /\ Len(result.lines) = Len(flux)
            /\ Len(result.res) = Len(flux)
            /\ \A j \in DOMAIN flux :
                  /\ RAdd(RAdd(result.cont[j], result.lines[j]), result.res[j]) = flux[j]
                  /\ result.cont[j] = SumCols(result.A[j], result.params, 1, num_cont)
                  /\ result.lines[j] = SumCols(result.A[j], result.params, num_cont + 1, m)

\* A fit with 3 continuum terms and two lines over two samples, one line on the
\* second sample: the line part is non-zero there and the continuum part differs
\* between the samples.
C2_Witness ==
    /\ result.fn = "linear_model"
    /\ ~result.raised
    /\ num_cont = 3
    /\ Len(airglow_lines) = 2
    /\ Len(result.wave_range) = 2
    /\ result.lines[2].n # 0
    /\ result.cont[1].n # 0
    /\ result.cont[1] # result.cont[2]

====
